---------------------------- MODULE Spec2Model ----------------------------
(***************************************************************************)
(* Early boot core of the RISC-V kernel: the machine-mode trap dispatcher  *)
(* m_trap (src/src/trap.rs), the UART driver (src/src/uart.rs) and the     *)
(* boot orchestrator kinit / id_map_range / __start_rust / kinit_hart      *)
(* (src/src/main.rs).  The modules page, kmem, plic and cpu are declared   *)
(* in src/src/lib.rs but their code is not part of the sources; what the   *)
(* model needs of them is taken from spec.md and marked as such.           *)
(*                                                                         *)
(* 64-bit words.  usize and u64 values are kept exactly, as five digits    *)
(* <<top, vpn2, vpn1, vpn0, off>> of the mixed radix 2^25, 512, 512, 512,  *)
(* 4096 (25 + 9 + 9 + 9 + 12 = 64 bits), most significant first.  The      *)
(* digits are the fields of an Sv39 virtual address, so page arithmetic,   *)
(* "cause & 0xfff" and "cause >> 63" read off single digits.               *)
(***************************************************************************)
EXTENDS Integers, Sequences, FiniteSets, TLC

VARIABLES
    overflow_checks, \* build profile: TRUE = arithmetic overflow panics, FALSE = it wraps
    started,         \* __start_rust has run
    pc,              \* the core: "running", "m_trap_ret" (m_trap has returned to the trap
                     \* vector, which resumes at the returned pc) or "abort" (the wfi loop)
    trap,            \* arguments of the last m_trap invocation, None before the first
    trap_ret,        \* Some(resume pc) returned by the last m_trap, None if it did not return
    msip,            \* CLINT software-interrupt register of each hart (0x0200_0000 + 4 * hart)
    mtime,           \* CLINT time counter   (0x0200_bff8)
    mtimecmp,        \* CLINT timer compare  (0x0200_4000)
    timer_log,       \* the last two timer traps: the mtime read, the mtimecmp written and
                     \* whether the timer interrupt was due (mtime >= mtimecmp), newest last
    plic,            \* interrupt controller: threshold, enabled, priority, pending, claimed
    calls,           \* calls the last m_trap made to the controller and to Uart::get, in order
                     \* (in SpecPlic: the calls made to the controller so far)
    uart_rx,         \* UART receive FIFO
    uart_tx,         \* bytes the last m_trap wrote to the UART transmit register by print!
    console,         \* formatted diagnostic lines printed by the last m_trap / panic
    ticks,           \* how many times the model has advanced the time counter
    layout,          \* the linker-supplied symbols (TEXT_START .. HEAP_SIZE) and where
                     \* KERNEL_TRAP_FRAME lies
    kpc,             \* the statement kinit is at; "off" while the boot is not modelled
    alloc,           \* the physical frame allocator: first frame, frame count, taken frames
    pt,              \* memory of the page tables: <<table address, index>> -> entry
    kroot,           \* root_ptr / root_u: the kernel's root table (kmem::get_page_table())
    kheap,           \* kmem::get_head() and kmem::get_num_allocations()
    KERNEL_TABLE,    \* static mut KERNEL_TABLE
    satp_value,      \* kinit's local satp_value
    satp,            \* the live translation-control register of hart 0
    fenced,          \* satp_fence_asid(0) was issued after the last write of satp
    mscratch,        \* machine-mode scratch register, per hart
    sscratch,        \* supervisor-mode scratch register, per hart
    KERNEL_TRAP_FRAME, \* static mut KERNEL_TRAP_FRAME, per hart: satp, trap_stack, hart_id
    klog,            \* the calls made so far by kinit (or, in SpecMap, the id_map_range calls)
    hpc,             \* the statement kinit_hart(h) is at, for every hart h > 0
    regions_done     \* in SpecOrder: the mapping calls of kinit made at least once

trap_vars == <<overflow_checks, started, pc, trap, trap_ret, msip, mtime, mtimecmp, timer_log,
               plic, calls, uart_rx, uart_tx, console, ticks>>

boot_vars == <<layout, kpc, alloc, pt, kroot, kheap, KERNEL_TABLE, satp_value, satp,
               fenced, mscratch, sscratch, KERNEL_TRAP_FRAME, klog, hpc,
               regions_done>>

vars == <<trap_vars, boot_vars>>

-----------------------------------------------------------------------------
(* Option<T> *)
None == <<>>
Some(x) == <<x>>

-----------------------------------------------------------------------------
(* 64-bit arithmetic *)
TopRadix == 2^25

\* a literal below 2^30
Lit(n) == <<0, 0, (n \div 2097152) % 512, (n \div 4096) % 512, n % 4096>>

\* g * 2^30 + n for n below 2^30: At(2, 0) is 0x8000_0000
At(g, n) == <<0, g, (n \div 2097152) % 512, (n \div 4096) % 512, n % 4096>>

\* 2^64 - 1
Max64 == <<TopRadix - 1, 511, 511, 511, 4095>>

\* x + y on 64 bits: the wrapped sum and the carry out
AddC(x, y) ==
    LET s5 == x[5] + y[5]
        s4 == x[4] + y[4] + (s5 \div 4096)
        s3 == x[3] + y[3] + (s4 \div 512)
        s2 == x[2] + y[2] + (s3 \div 512)
        s1 == x[1] + y[1] + (s2 \div 512)
    IN  [val   |-> <<s1 % TopRadix, s2 % 512, s3 % 512, s4 % 512, s5 % 4096>>,
         carry |-> s1 \div TopRadix]

\* x - y on 64 bits: the wrapped difference and the borrow out
SubB(x, y) ==
    LET d5 == x[5] - y[5]
        b5 == IF d5 < 0 THEN 1 ELSE 0
        d4 == x[4] - y[4] - b5
        b4 == IF d4 < 0 THEN 1 ELSE 0
        d3 == x[3] - y[3] - b4
        b3 == IF d3 < 0 THEN 1 ELSE 0
        d2 == x[2] - y[2] - b3
        b2 == IF d2 < 0 THEN 1 ELSE 0
        d1 == x[1] - y[1] - b2
        b1 == IF d1 < 0 THEN 1 ELSE 0
    IN  [val    |-> <<d1 + b1 * TopRadix, d2 + b2 * 512, d3 + b3 * 512,
                      d4 + b4 * 512, d5 + b5 * 4096>>,
         borrow |-> b1]

\* x < y
Less(x, y) ==
    \E i \in 1..5 : x[i] < y[i] /\ \A j \in 1..(i - 1) : x[j] = y[j]

Leq(x, y) == x = y \/ Less(x, y)

-----------------------------------------------------------------------------
(* Bounds of the model *)
MaxTicks == 2        \* steps the time counter is advanced
MaxRx == 1           \* capacity of the modelled UART receive FIFO
MaxPriority == 1     \* interrupt priorities 0..MaxPriority
MaxCalls == 4        \* direct calls to the controller that are logged
MaxMapPages == 2     \* whole pages in the length of a mapped range
PoolFrames == 16     \* frames of the allocator under the id_map_range calls

(* Program constants *)
UartSource == 10             \* the UART's interrupt source
TickInterval == 10000000     \* timer ticks added on every timer trap

\* an interrupt source that is not the UART's, and the UART's
Sources == {9, UartSource}
Priorities == 0..MaxPriority
Harts == {0, 1, 2}

\* bytes the UART may receive: backspace, delete, LF, CR, NUL, 'A', '~', 0x80, 0xc8, 0xff
RxBytes == {8, 127, 10, 13, 0, 65, 126, 128, 200, 255}

\* program counters m_trap is entered with: 0x8000_0000, the last word of a page,
\* and the last two words of the address space
EpcSet == {At(2, 0), At(2, 4092),
           <<TopRadix - 1, 511, 511, 511, 4088>>, <<TopRadix - 1, 511, 511, 511, 4092>>}

\* low 12 bits of the causes m_trap is entered with
CauseNums == {0, 2, 3, 5, 7, 8, 9, 11, 12, 13, 15, 4095}

\* causes: bit 63 set or clear, bit 62 and bit 12 set or clear, low 12 bits in CauseNums
CauseSet ==
    {<<t, 0, 0, 0, n>> : t \in {0, 2^24}, n \in CauseNums}
        \cup {<<2^23, 0, 0, 1, n>> : n \in {7, 8}} \cup {<<2^24 + 2^23, 0, 0, 1, n>> : n \in {7, 8}}

-----------------------------------------------------------------------------
(* uart.rs *)

\* Uart::get: None when the line status register shows no data ready,
\* otherwise the byte at the head of the receive FIFO, which the read removes
uart_get(rx) ==
    IF rx = <<>> THEN [ret |-> None, rx |-> rx]
    ELSE [ret |-> Some(Head(rx)), rx |-> Tail(rx)]

\* the bytes of the UTF-8 encoding of the char with code c < 256 ("c as char" formatted by {})
Utf8(c) ==
    IF c < 128 THEN <<c>> ELSE <<192 + (c \div 64), 128 + (c % 64)>>

\* Uart::write_str: put() of every byte of the string, in order
write_str(tx, bytes) == tx \o bytes

\* println!() prints "\r\n"
CrLf == <<13, 10>>

-----------------------------------------------------------------------------
(* plic: the external interrupt controller *)

PlicReset ==
    [threshold |-> 0, enabled |-> {}, priority |-> [s \in Sources |-> 0],
     pending |-> {}, claimed |-> {}]

plic_set_threshold(p, tsh) == [p EXCEPT !.threshold = tsh]
plic_enable(p, id) == [p EXCEPT !.enabled = @ \cup {id}]
plic_disable(p, id) == [p EXCEPT !.enabled = @ \ {id}]
plic_set_priority(p, id, prio) == [p EXCEPT !.priority[id] = prio]

\* sources the controller can hand out: pending, enabled, above the threshold
Eligible(p) ==
    {s \in p.pending : s \in p.enabled /\ p.priority[s] > p.threshold}

\* plic::next: claims the highest-priority eligible source (lowest id first)
plic_next(p) ==
    IF Eligible(p) = {} THEN [ret |-> None, plic |-> p]
    ELSE LET s == CHOOSE x \in Eligible(p) :
                     \A y \in Eligible(p) :
                         \/ p.priority[y] < p.priority[x]
                         \/ (p.priority[y] = p.priority[x] /\ x <= y)
         IN  [ret |-> Some(s),
              plic |-> [p EXCEPT !.pending = @ \ {s}, !.claimed = @ \cup {s}]]

\* plic::complete: re-arms the source
plic_complete(p, id) == [p EXCEPT !.claimed = @ \ {id}]

\* the gateway of source s latches a new request unless s is pending or in service
plic_raise(p, s) ==
    IF s \in p.pending \cup p.claimed THEN p ELSE [p EXCEPT !.pending = @ \cup {s}]

-----------------------------------------------------------------------------
(* trap.rs: m_trap *)

\* cause >> 63 & 1 == 1
is_async(cause) == (cause[1] \div 2^24) % 2 = 1

\* cause & 0xfff
cause_num(cause) == cause[5]

\* what one run of m_trap leaves behind: the value returned (None: it panicked)
\* and the devices as it left them
Outcome(ret, cmp, tlog, pl, cl, rx, tx, con) ==
    [ret |-> ret, mtimecmp |-> cmp, timer_log |-> tlog, plic |-> pl,
     calls |-> cl, uart_rx |-> rx, uart_tx |-> tx, console |-> con]

\* mutant of Plain: every arm rearms the timer
Plain_rearms(ret, con) ==
    Outcome(ret, AddC(mtime, Lit(TickInterval)).val, timer_log, plic, <<>>, uart_rx,
            <<>>, con)

\* nothing but the returned pc and a diagnostic line
Plain(ret, con) ==
    Outcome(ret, mtimecmp, timer_log, plic, <<>>, uart_rx, <<>>, con)

\* mutant of panic: a panic handler that comes back to its caller
panic_returns(msg) == Plain(Some(Lit(0)), <<[text |-> "Aborting: "], msg>>)

\* panic!(..): the panic handler prints "Aborting: " and the location, then abort()
panic(msg) == Plain(None, <<[text |-> "Aborting: "], msg>>)

\* mutant of Advance: the resume pc is left at the faulting instruction
Advance_none(epc, msg) == Plain(Some(epc), <<msg>>)

\* println!(..); return_pc += 4; .. return_pc: the sum, or the overflow panic of a
\* build with overflow checks
Advance(epc, msg) ==
    LET sum == AddC(epc, Lit(4))
    IN  IF sum.carry = 1 /\ overflow_checks
        THEN [panic([text |-> "attempt to add with overflow"]) EXCEPT !.console = <<msg>> \o @]
        ELSE Plain(Some(sum.val), <<msg>>)

\* mutant of TimerTrap: the next deadline is counted from the previous deadline
TimerTrap_from_cmp(epc) ==
    LET sum == AddC(mtimecmp, Lit(TickInterval))
        tlog == IF Len(timer_log) < 2 THEN timer_log ELSE Tail(timer_log)
    IN  Outcome(Some(epc), sum.val,
                Append(tlog, [read |-> mtime, written |-> sum.val,
                              due |-> Leq(mtimecmp, mtime)]),
                plic, <<>>, uart_rx, <<>>, <<>>)

\* mutant of TimerTrap: the compare register is set to the counter as read
TimerTrap_now(epc) ==
    LET tlog == IF Len(timer_log) < 2 THEN timer_log ELSE Tail(timer_log)
    IN  Outcome(Some(epc), mtime,
                Append(tlog, [read |-> mtime, written |-> mtime,
                              due |-> Leq(mtimecmp, mtime)]),
                plic, <<>>, uart_rx, <<>>, <<>>)

\* cause 7, asynchronous: mtimecmp.write_volatile(mtime.read_volatile() + 10_000_000)
TimerTrap(epc) ==
    LET sum == AddC(mtime, Lit(TickInterval))
        tlog == IF Len(timer_log) < 2 THEN timer_log ELSE Tail(timer_log)
    IN  IF sum.carry = 1 /\ overflow_checks
        THEN panic([text |-> "attempt to add with overflow"])
        ELSE Outcome(Some(epc), sum.val,
                     Append(tlog, [read |-> mtime, written |-> sum.val,
                                   due |-> Leq(mtimecmp, mtime)]),
                     plic, <<>>, uart_rx, <<>>, <<>>)

\* the bytes echoed for the received byte c
Echo(c) ==
    IF c \in {8, 127} THEN Utf8(8) \o <<32>> \o Utf8(8)     \* print!("{} {}", 8 as char, 8 as char)
    ELSE IF c \in {10, 13} THEN CrLf                        \* println!()
    ELSE Utf8(c)                                            \* print!("{}", c as char)

\* mutant of claim_done: only the UART's source is completed
claim_done_uart_only(p, interrupt) ==
    IF interrupt = UartSource
    THEN [plic |-> plic_complete(p, interrupt),
          calls |-> <<[op |-> "complete", id |-> interrupt]>>]
    ELSE [plic |-> p, calls |-> <<>>]

\* plic::complete(interrupt) at the end of the claimed branch
claim_done(p, interrupt) ==
    [plic |-> plic_complete(p, interrupt),
     calls |-> <<[op |-> "complete", id |-> interrupt]>>]

\* cause 11, asynchronous: claim, serve the UART or log, complete
ExternalTrap(epc) ==
    LET n == plic_next(plic)
        nextcall == <<[op |-> "next", ret |-> n.ret]>>
    IN  IF n.ret = None
        THEN Outcome(Some(epc), mtimecmp, timer_log, n.plic, nextcall, uart_rx, <<>>, <<>>)
        ELSE LET interrupt == n.ret[1]
                 g == uart_get(uart_rx)
                 done == claim_done(n.plic, interrupt)
             IN  IF interrupt = UartSource
                 THEN Outcome(Some(epc), mtimecmp, timer_log, done.plic,
                              nextcall \o <<[op |-> "get", ret |-> g.ret]>> \o done.calls,
                              g.rx,
                              IF g.ret = None THEN <<>> ELSE write_str(<<>>, Echo(g.ret[1])),
                              <<>>)
                 ELSE Outcome(Some(epc), mtimecmp, timer_log, done.plic,
                              nextcall \o done.calls, uart_rx, <<>>,
                              <<[text |-> "Non-UART external interrupt: ",
                                 interrupt |-> interrupt]>>)

\* mutant of SoftwareTrap: the interrupt is treated like a call and skips an instruction
SoftwareTrap_skips(epc, hart) ==
    Plain(Some(AddC(epc, Lit(4)).val),
          <<[text |-> "Machine software interrupt CPU#", hart |-> hart]>>)

\* cause 3, asynchronous: a diagnostic line only
SoftwareTrap(epc, hart) ==
    Plain(Some(epc), <<[text |-> "Machine software interrupt CPU#", hart |-> hart]>>)

Dispatch(epc, tval, cause, hart) ==
    LET n == cause_num(cause)
    IN  IF is_async(cause)
        THEN CASE n = 3 -> SoftwareTrap(epc, hart)
               [] n = 7 -> TimerTrap(epc)
               [] n = 11 -> ExternalTrap(epc)
               [] OTHER -> panic([text |-> "Unhandled async trap CPU#", hart |-> hart, cause |-> n])
        ELSE CASE n = 2 -> panic([text |-> "Illeagal instruction CPU#", hart |-> hart, epc |-> epc, tval |-> tval])
               [] n = 8 -> Advance(epc, [text |-> "E-call from User mode! CPU#", hart |-> hart, epc |-> epc])
               [] n = 9 -> Advance(epc, [text |-> "E-call from Supervisor mode! CPU#", hart |-> hart, epc |-> epc])
               [] n = 11 -> Advance(epc, [text |-> "E-call from Machine mode! CPU#", hart |-> hart, epc |-> epc])
               [] n = 12 -> Advance(epc, [text |-> "Instruction page fault CPU#", hart |-> hart, epc |-> epc, tval |-> tval])
               [] n = 13 -> Advance(epc, [text |-> "Load page fault CPU#", hart |-> hart, epc |-> epc, tval |-> tval])
               [] n = 15 -> Advance(epc, [text |-> "Store page fault CPU#", hart |-> hart, epc |-> epc, tval |-> tval])
               [] OTHER -> panic([text |-> "Unhandled sync trap CPU#", hart |-> hart, cause |-> n])

\* one trap: the hardware enters m_trap, which runs to completion
m_trap(epc, tval, cause, hart) ==
    /\ pc = "running"
    /\ LET o == Dispatch(epc, tval, cause, hart)
       IN  /\ trap' = Some([epc |-> epc, cause |-> cause])
           /\ trap_ret' = o.ret
           /\ pc' = IF o.ret = None THEN "abort" ELSE "m_trap_ret"
           /\ mtimecmp' = o.mtimecmp
           /\ timer_log' = o.timer_log
           /\ plic' = o.plic
           /\ calls' = o.calls
           /\ uart_rx' = o.uart_rx
           /\ uart_tx' = o.uart_tx
           /\ console' = o.console
    /\ UNCHANGED <<msip, overflow_checks, started, mtime, ticks>>
    /\ UNCHANGED boot_vars

\* abort(): loop { wfi }
abort ==
    /\ pc = "abort"
    /\ UNCHANGED vars

\* the trap vector resumes the interrupted code at the pc m_trap returned
mret ==
    /\ pc = "m_trap_ret"
    /\ pc' = "running"
    /\ trap' = None
    /\ trap_ret' = None
    /\ calls' = <<>>
    /\ uart_tx' = <<>>
    /\ console' = <<>>
    /\ UNCHANGED <<msip, overflow_checks, started, mtime, mtimecmp, timer_log, plic, uart_rx, ticks>>
    /\ UNCHANGED boot_vars

-----------------------------------------------------------------------------
(* main.rs: __start_rust, the part that configures the interrupt controller *)
\* mutant of start_rust_plic: the UART's source is left at the threshold's priority
start_rust_plic_masked(p) ==
    plic_set_priority(plic_enable(plic_set_threshold(p, 0), UartSource), UartSource, 0)

start_rust_plic(p) ==
    plic_set_priority(plic_enable(plic_set_threshold(p, 0), UartSource), UartSource, 1)

start_rust ==
    /\ pc = "running"
    /\ ~started
    /\ started' = TRUE
    /\ plic' = start_rust_plic(plic)
    /\ UNCHANGED <<msip, overflow_checks, pc, trap, trap_ret, mtime, mtimecmp, timer_log,
                   calls, uart_rx, uart_tx, console, ticks>>
    /\ UNCHANGED boot_vars

-----------------------------------------------------------------------------
(* The devices around the core.  They do not move in the instant between the *)
(* return of m_trap and the trap vector's mret.                              *)

\* values the time counter may hold when the first trap is taken: zero (reset), and
\* a later value whose sum with the tick interval carries into the upper digits
MtimeInit == {Lit(0), <<0, 3, 511, 510, 100>>}

\* the time counter advances by d, wrapping at 2^64
Tick(d) ==
    /\ pc # "m_trap_ret"
    /\ ticks < MaxTicks
    /\ ticks' = ticks + 1
    /\ mtime' = AddC(mtime, Lit(d)).val
    /\ UNCHANGED <<msip, overflow_checks, started, pc, trap, trap_ret, mtimecmp, timer_log,
                   plic, calls, uart_rx, uart_tx, console>>
    /\ UNCHANGED boot_vars

\* the UART receives byte c and raises its interrupt line
UartReceive(c) ==
    /\ pc # "m_trap_ret"
    /\ Len(uart_rx) < MaxRx
    /\ uart_rx' = Append(uart_rx, c)
    /\ plic' = plic_raise(plic, UartSource)
    /\ UNCHANGED <<msip, overflow_checks, started, pc, trap, trap_ret, mtime, mtimecmp, timer_log,
                   calls, uart_tx, console, ticks>>
    /\ UNCHANGED boot_vars

\* the line of source s is raised
Raise(s) ==
    /\ pc # "m_trap_ret"
    /\ plic' = plic_raise(plic, s)
    /\ plic' # plic
    /\ UNCHANGED <<msip, overflow_checks, started, pc, trap, trap_ret, mtime, mtimecmp, timer_log,
                   calls, uart_rx, uart_tx, console, ticks>>
    /\ UNCHANGED boot_vars

\* kernel code enables source s at priority prio
EnableSource(s, prio) ==
    /\ pc = "running"
    /\ plic' = plic_set_priority(plic_enable(plic, s), s, prio)
    /\ plic' # plic
    /\ UNCHANGED <<msip, overflow_checks, started, pc, trap, trap_ret, mtime, mtimecmp, timer_log,
                   calls, uart_rx, uart_tx, console, ticks>>
    /\ UNCHANGED boot_vars

-----------------------------------------------------------------------------
(* The trap dispatcher among its devices *)
\* no trap taken yet, the devices at rest
TrapIdle ==
    /\ started = FALSE
    /\ msip = [h \in Harts |-> FALSE]
    /\ pc = "running"
    /\ trap = None
    /\ trap_ret = None
    /\ mtimecmp = Lit(0)
    /\ timer_log = <<>>
    /\ plic = PlicReset
    /\ calls = <<>>
    /\ uart_rx = <<>>
    /\ uart_tx = <<>>
    /\ console = <<>>
    /\ ticks = 0

\* the boot is not part of the run: its variables are fixed
BootOff ==
    /\ layout = None
    /\ kpc = "off"
    /\ alloc = [start |-> Lit(0), num |-> 0, taken |-> {}]
    /\ pt = <<>>
    /\ kroot = Lit(0)
    /\ kheap = [head |-> Lit(0), pages |-> 0]
    /\ KERNEL_TABLE = Lit(0)
    /\ satp_value = Lit(0)
    /\ satp = Lit(0)
    /\ fenced = FALSE
    /\ mscratch = [h \in Harts |-> Lit(0)]
    /\ sscratch = [h \in Harts |-> Lit(0)]
    /\ KERNEL_TRAP_FRAME = [h \in Harts |-> [satp |-> Lit(0), trap_stack |-> Lit(0), hart_id |-> 0]]
    /\ klog = <<>>
    /\ hpc = [h \in Harts \ {0} |-> "mscratch_write"]
    /\ regions_done = {}

InitTrap ==
    /\ overflow_checks \in BOOLEAN
    /\ mtime \in MtimeInit
    /\ TrapIdle
    /\ BootOff

\* every cause, every pc, every hart
NextTrap ==
    \/ \E epc \in EpcSet, cause \in CauseSet, hart \in Harts :
           m_trap(epc, Lit(0), cause, hart)
    \/ mret
    \/ abort
    \/ start_rust
    \/ UartReceive(65)
    \/ \E s \in Sources : Raise(s)
    \/ \E s \in Sources, prio \in Priorities : EnableSource(s, prio)

SpecTrap == InitTrap /\ [][NextTrap]_vars

\* cause 7 with bit 63 set: the machine timer interrupt
TimerCause == <<2^24, 0, 0, 0, 7>>

\* timer traps, and environment calls between them, while the time counter advances
NextTimer ==
    \/ \E cause \in {TimerCause, Lit(8)} : m_trap(At(2, 0), Lit(0), cause, 0)
    \/ mret
    \/ \E d \in {1, TickInterval} : Tick(d)

SpecTimer == InitTrap /\ [][NextTimer]_vars

\* the core takes the machine timer interrupt, which the CLINT asserts while
\* mtime >= mtimecmp
timer_interrupt ==
    /\ Leq(mtimecmp, mtime)
    /\ m_trap(At(2, 0), Lit(0), TimerCause, 0)

\* the timer alone: the interrupt is taken when it is due, the counter advances
NextTimerLive ==
    \/ timer_interrupt
    \/ mret
    \/ \E d \in {1, TickInterval} : Tick(d)

\* a due timer interrupt is taken and the trap vector returns
SpecTimerLive ==
    /\ InitTrap
    /\ [][NextTimerLive]_vars
    /\ WF_vars(timer_interrupt)
    /\ WF_vars(mret)

\* cause 11 with bit 63 set: the machine external interrupt
ExternalCause == <<2^24, 0, 0, 0, 11>>

\* external-interrupt traps while the UART receives and sources raise their lines
NextExternal ==
    \/ m_trap(At(2, 0), Lit(0), ExternalCause, 0)
    \/ mret
    \/ start_rust
    \/ \E c \in RxBytes : UartReceive(c)
    \/ \E s \in Sources : Raise(s)
    \/ \E s \in Sources, prio \in Priorities : EnableSource(s, prio)

SpecExternal == InitTrap /\ [][NextExternal]_vars

\* cause 3 with bit 63 set: the machine software interrupt
SoftwareCause == <<2^24, 0, 0, 0, 3>>

\* something writes 1 to the msip register of hart 0
send_ipi ==
    /\ pc # "m_trap_ret"
    /\ ~msip[0]
    /\ msip' = [msip EXCEPT ![0] = TRUE]
    /\ UNCHANGED <<overflow_checks, started, pc, trap, trap_ret, mtime, mtimecmp, timer_log,
                   plic, calls, uart_rx, uart_tx, console, ticks>>
    /\ UNCHANGED boot_vars

\* the core takes the machine software interrupt, pending while msip is set
software_interrupt ==
    /\ msip[0]
    /\ m_trap(At(2, 0), Lit(0), SoftwareCause, 0)

\* the core takes the machine external interrupt, pending while the controller has
\* a source to hand out
external_interrupt ==
    /\ Eligible(plic) # {}
    /\ m_trap(At(2, 0), Lit(0), ExternalCause, 0)

\* the condition that makes the hardware raise the interrupt with this cause
Raised(cause) ==
    CASE cause = SoftwareCause -> msip[0]
      [] cause = TimerCause -> Leq(mtimecmp, mtime)
      [] cause = ExternalCause -> Eligible(plic) # {}

\* interrupts taken when the hardware raises them, between device events
NextIrq ==
    \/ software_interrupt
    \/ timer_interrupt
    \/ external_interrupt
    \/ mret
    \/ start_rust
    \/ send_ipi
    \/ \E d \in {1, TickInterval} : Tick(d)
    \/ \E c \in RxBytes : UartReceive(c)

SpecIrq == InitTrap /\ [][NextIrq]_vars

-----------------------------------------------------------------------------
(* The controller's claim/complete protocol, driven directly *)

\* a caller invokes plic::next()
next_call ==
    /\ pc = "running"
    /\ Len(calls) < MaxCalls
    /\ LET n == plic_next(plic)
       IN  /\ plic' = n.plic
           /\ calls' = Append(calls, [op |-> "next", ret |-> n.ret])
    /\ UNCHANGED <<msip, overflow_checks, started, pc, trap, trap_ret, mtime, mtimecmp,
                   timer_log, uart_rx, uart_tx, console, ticks>>
    /\ UNCHANGED boot_vars

\* a caller invokes plic::complete(id)
complete_call(id) ==
    /\ pc = "running"
    /\ Len(calls) < MaxCalls
    /\ plic' = plic_complete(plic, id)
    /\ calls' = Append(calls, [op |-> "complete", id |-> id])
    /\ UNCHANGED <<msip, overflow_checks, started, pc, trap, trap_ret, mtime, mtimecmp,
                   timer_log, uart_rx, uart_tx, console, ticks>>
    /\ UNCHANGED boot_vars

NextPlic ==
    \/ start_rust
    \/ \E s \in Sources : Raise(s)
    \/ next_call
    \/ \E s \in Sources : complete_call(s)

SpecPlic == InitTrap /\ [][NextPlic]_vars

-----------------------------------------------------------------------------
(* page: the physical frame allocator and the Sv39 page table *)

\* page::PAGE_SIZE, as a 64-bit word
PAGE_SIZE == Lit(4096)

\* addr & !(PAGE_SIZE - 1)
PageBase(addr) == [addr EXCEPT ![5] = 0]

\* page::align_val(val, 12): val rounded up to a page boundary
align_val(val) == PageBase(AddC(val, Lit(4095)).val)

\* page::EntryBits: the permission sets kinit asks for, and the valid bit
ReadWrite == {"R", "W"}
ReadExecute == {"R", "X"}
Valid == {"V"}

\* the address of frame i of the allocator
FrameAddr(al, i) == AddC(al.start, <<0, 0, i \div 512, i % 512, 0>>).val

\* page::zalloc(n): the first run of n free frames, taken and zeroed; null when
\* there is none
zalloc(al, n) ==
    LET runs == {i \in 0..(al.num - n) : \A j \in i..(i + n - 1) : j \notin al.taken}
    IN  IF n = 0 \/ runs = {}
        THEN [ret |-> Lit(0), alloc |-> al]
        ELSE LET i == CHOOSE x \in runs : \A y \in runs : x <= y
             IN  [ret |-> FrameAddr(al, i),
                  alloc |-> [al EXCEPT !.taken = @ \cup (i..(i + n - 1))]]

\* the entry in slot <<table, index>>; memory handed out by zalloc reads as zero
InvalidEntry == [addr |-> Lit(0), bits |-> {}]
Entry(p, slot) == IF slot \in DOMAIN p THEN p[slot] ELSE InvalidEntry
Store(p, slot, e) == (slot :> e) @@ p

is_valid(e) == "V" \in e.bits
is_leaf(e) == e.bits \cap {"R", "W", "X"} # {}

\* the index of vaddr into the table of level lvl: vpn[lvl]
Vpn(vaddr, lvl) == vaddr[4 - lvl]

\* page::map: descend from the root to `level`, allocating the missing tables, and
\* write the leaf there
RECURSIVE map_walk(_, _, _, _, _, _, _, _)
map_walk(p, al, table, lvl, vaddr, paddr, bits, level) ==
    LET slot == <<table, Vpn(vaddr, lvl)>>
    IN  IF lvl = level
        THEN [pt |-> Store(p, slot, [addr |-> PageBase(paddr), bits |-> bits \cup Valid]),
              alloc |-> al, ok |-> TRUE]
        ELSE IF is_valid(Entry(p, slot))
        THEN map_walk(p, al, Entry(p, slot).addr, lvl - 1, vaddr, paddr, bits, level)
        ELSE LET z == zalloc(al, 1)
             IN  IF z.ret = Lit(0)
                 THEN [pt |-> p, alloc |-> al, ok |-> FALSE]
                 ELSE map_walk(Store(p, slot, [addr |-> z.ret, bits |-> Valid]), z.alloc,
                               z.ret, lvl - 1, vaddr, paddr, bits, level)

map(p, al, root, vaddr, paddr, bits, level) ==
    map_walk(p, al, root, 2, vaddr, paddr, bits, level)

\* the leaf entry the walk of vaddr ends at, and its level; None when the walk
\* meets an invalid entry or a branch at level 0
RECURSIVE walk(_, _, _, _)
walk(p, table, lvl, vaddr) ==
    LET e == Entry(p, <<table, Vpn(vaddr, lvl)>>)
    IN  IF ~is_valid(e) THEN None
        ELSE IF is_leaf(e) THEN Some([entry |-> e, level |-> lvl])
        ELSE IF lvl = 0 THEN None
        ELSE walk(p, e.addr, lvl - 1, vaddr)

\* page::virt_to_phys: the leaf's frame with the offset of vaddr below the leaf's level
virt_to_phys(p, root, vaddr) ==
    LET w == walk(p, root, 2, vaddr)
    IN  IF w = None THEN None
        ELSE LET a == w[1].entry.addr
                 l == w[1].level
             IN  Some(<<a[1], a[2],
                        IF l >= 2 THEN vaddr[3] ELSE a[3],
                        IF l >= 1 THEN vaddr[4] ELSE a[4],
                        vaddr[5]>>)

-----------------------------------------------------------------------------
(* main.rs: id_map_range *)

\* mutant of PageCount: one page too many
PageCount_more(x) == x[4] + 512 * x[3] + 262144 * x[2] + 1

\* a page count as a number (counts of the model stay far below 2^27)
PageCount(x) == x[4] + 512 * x[3] + 262144 * x[2]

\* for _ in 0..num_kb_pages { page::map(root, memaddr, memaddr, bits, 0); memaddr += 1 << 12; }
RECURSIVE id_map_loop(_, _, _, _, _, _, _)
id_map_loop(p, al, root, memaddr, n, bits, maps) ==
    IF n = 0
    THEN [pt |-> p, alloc |-> al, ok |-> TRUE, maps |-> maps]
    ELSE LET m == map(p, al, root, memaddr, memaddr, bits, 0)
             called == Append(maps, [vaddr |-> memaddr, paddr |-> memaddr,
                                     bits |-> bits, level |-> 0])
         IN  IF ~m.ok
             THEN [pt |-> m.pt, alloc |-> m.alloc, ok |-> FALSE, maps |-> called]
             ELSE id_map_loop(m.pt, m.alloc, root, AddC(memaddr, PAGE_SIZE).val,
                              n - 1, bits, called)

\* mutant of id_map_range: the end of the range is not rounded up to a page boundary
id_map_range_floor(p, al, root, start, end, bits) ==
    LET memaddr == PageBase(start)
        num_kb_pages == PageCount(SubB(PageBase(end), memaddr).val)
    IN  id_map_loop(p, al, root, memaddr, num_kb_pages, bits, <<>>)

\* mutant of id_map_range: the first page of the range is mapped onto a frame taken
\* from the allocator
id_map_range_fresh(p, al, root, start, end, bits) ==
    LET z == zalloc(al, 1)
        m == map(p, z.alloc, root, PageBase(start), z.ret, bits, 0)
    IN  [pt |-> m.pt, alloc |-> m.alloc, ok |-> m.ok, maps |-> <<>>]

id_map_range(p, al, root, start, end, bits) ==
    LET memaddr == PageBase(start)
        num_kb_pages == PageCount(SubB(align_val(end), memaddr).val)
    IN  id_map_loop(p, al, root, memaddr, num_kb_pages, bits, <<>>)

-----------------------------------------------------------------------------
(* id_map_range on a root table, called with ranges and permissions of all shapes *)

\* range starts: 0x8000_0000, the same plus 0x800, the last page under a level-1
\* boundary, 0x0c00_2001, and 2^39
MapStarts == {At(2, 0), At(2, 2048), <<0, 2, 0, 511, 0>>, <<0, 0, 96, 2, 1>>,
              <<1, 0, 0, 0, 0>>}

\* range lengths in bytes: 0, 1, and around every whole number of pages
MapLens == {0, 1} \cup {k * 4096 + d : k \in 1..MaxMapPages, d \in {-1, 0, 1}}

\* permission values with at least one of R, W, X, as a leaf needs
LeafBits == {ReadWrite, ReadExecute, {"R", "W", "X", "U"}}

\* the root table a call finds: fresh from zalloc(1), or holding the read-execute
\* mapping of 0x8000_0000..0x8000_3000 made by an earlier id_map_range
FreshTable ==
    LET z == zalloc([start |-> At(2, 1048576), num |-> PoolFrames, taken |-> {}], 1)
    IN  [alloc |-> z.alloc, root |-> z.ret, pt |-> <<>>]

PriorTables ==
    LET r == id_map_range(FreshTable.pt, FreshTable.alloc, FreshTable.root,
                          At(2, 0), At(2, 12288), ReadExecute)
    IN  {FreshTable, [alloc |-> r.alloc, root |-> FreshTable.root, pt |-> r.pt]}

InitMap ==
    /\ overflow_checks = FALSE
    /\ mtime = Lit(0)
    /\ TrapIdle
    /\ \E prior \in PriorTables :
           /\ alloc = prior.alloc
           /\ kroot = prior.root
           /\ pt = prior.pt
    /\ layout = None
    /\ kpc = "off"
    /\ kheap = [head |-> Lit(0), pages |-> 0]
    /\ KERNEL_TABLE = Lit(0)
    /\ satp_value = Lit(0)
    /\ satp = Lit(0)
    /\ fenced = FALSE
    /\ mscratch = [h \in Harts |-> Lit(0)]
    /\ sscratch = [h \in Harts |-> Lit(0)]
    /\ KERNEL_TRAP_FRAME = [h \in Harts |-> [satp |-> Lit(0), trap_stack |-> Lit(0), hart_id |-> 0]]
    /\ klog = <<>>
    /\ hpc = [h \in Harts \ {0} |-> "mscratch_write"]
    /\ regions_done = {}

\* one call id_map_range(root, start, start + len, bits)
IdMapRange(start, len, bits) ==
    /\ klog = <<>>
    /\ LET end == AddC(start, Lit(len)).val
           r == id_map_range(pt, alloc, kroot, start, end, bits)
       IN  /\ pt' = r.pt
           /\ alloc' = r.alloc
           /\ klog' = Append(klog, [op |-> "id_map_range", start |-> start, end |-> end,
                                    bits |-> bits, maps |-> r.maps, ok |-> r.ok])
    /\ UNCHANGED trap_vars
    /\ UNCHANGED <<regions_done, hpc, layout, kpc, kroot, kheap, KERNEL_TABLE, satp_value, satp, fenced,
                   mscratch, sscratch, KERNEL_TRAP_FRAME>>

NextMap ==
    \E start \in MapStarts, len \in MapLens, bits \in LeafBits : IdMapRange(start, len, bits)

SpecMap == InitMap /\ [][NextMap]_vars

-----------------------------------------------------------------------------
(* main.rs: kinit, statement by statement *)

\* linker scripts: sections that end on a page boundary or 0xa30 past it,
\* KERNEL_TRAP_FRAME inside one page of .bss or across two, and a heap of n pages
LayoutsOf(heaps) ==
    {[TEXT_START |-> At(2, 0),        TEXT_END |-> At(2, 8192 + k),
      RODATA_START |-> At(2, 8192 + k), RODATA_END |-> At(2, 12288 + k),
      DATA_START |-> At(2, 16384),    DATA_END |-> At(2, 16400 + k),
      BSS_START |-> At(2, 20480),     BSS_END |-> At(2, 28672 + k),
      KERNEL_STACK_START |-> At(2, 32768), KERNEL_STACK_END |-> At(2, 40960),
      HEAP_START |-> At(2, 40960),    HEAP_SIZE |-> Lit(n * 4096),
      TRAP_FRAMES |-> At(2, 20480 + f)] :
        k \in {0, 2608}, f \in {256, 4080}, n \in heaps}

\* frames of the kernel heap that kmem::init asks for
KmemPages == 2

\* the linker scripts the model boots with: a heap of 24 or 32 pages
Layouts == LayoutsOf({24, 32})

\* linker scripts with a heap that holds its descriptor page, the kernel heap, the root
\* table and the seven tables under the section and device mappings, and no frame more
LowHeapLayouts == LayoutsOf({KmemPages + 9})

\* size_of::<cpu::TrapFrame>(): 32 saved registers, satp, trap stack pointer, hart id
TrapFrameSize == 280

\* &mut cpu::KERNEL_TRAP_FRAME[h] as usize
TrapFrameAddr(l, h) == AddC(l.TRAP_FRAMES, Lit(h * TrapFrameSize)).val

\* page::init(): one descriptor byte per page at HEAP_START, the frames after them
page_init(l) ==
    LET num_pages == PageCount(l.HEAP_SIZE)
        alloc_start == align_val(AddC(l.HEAP_START, Lit(num_pages)).val)
    IN  [start |-> alloc_start,
         num |-> num_pages - PageCount(SubB(alloc_start, l.HEAP_START).val),
         taken |-> {}]

\* x >> 12
Shr12(x) ==
    <<x[1] \div 4096,
      (x[1] \div 8) % 512,
      (x[2] \div 8) + 64 * (x[1] % 8),
      (x[3] \div 8) + 64 * (x[2] % 8),
      x[4] + 512 * (x[3] % 8)>>

\* cpu::SatpMode::Sv39
Sv39 == 8

\* cpu::build_satp(mode, asid, addr): (mode << 60) | (asid << 44) | (addr >> 12)
build_satp(mode, asid, addr) ==
    LET ppn == Shr12(addr)
    IN  <<(mode * 2097152 + asid * 32 + ppn[1]) % TopRadix, ppn[2], ppn[3], ppn[4], ppn[5]>>

\* mutant of KinitOrder: translation is switched on before the trap stack is
\* allocated and mapped
KinitOrder_early ==
    <<"init", "map_heap", "map_heap_desc", "map_text", "map_rodata", "map_data",
      "map_bss", "map_stack", "map_uart", "map_msip", "map_mtimecmp", "map_mtime",
      "map_plic_low", "map_plic_high", "kernel_table", "build_satp",
      "mscratch_write", "sscratch_write", "store_satp", "satp_write", "satp_fence",
      "alloc_trap_stack", "map_trap_stack", "map_trap_frame", "done">>

\* the statements of kinit, in program order
KinitOrder ==
    <<"init", "map_heap", "map_heap_desc", "map_text", "map_rodata", "map_data",
      "map_bss", "map_stack", "map_uart", "map_msip", "map_mtimecmp", "map_mtime",
      "map_plic_low", "map_plic_high", "kernel_table", "build_satp",
      "mscratch_write", "sscratch_write", "store_satp", "alloc_trap_stack",
      "map_trap_stack", "map_trap_frame", "satp_write", "satp_fence", "done">>

\* the statement after statement l
After(l) == KinitOrder[(CHOOSE i \in 1..Len(KinitOrder) : KinitOrder[i] = l) + 1]

\* the id_map_range calls of kinit: start, end, bits
RangeCalls ==
    [map_heap |-> [start |-> kheap.head,
                   end |-> AddC(kheap.head, Lit(kheap.pages * 4096)).val,
                   bits |-> ReadWrite],
     map_heap_desc |-> [start |-> layout.HEAP_START,
                        end |-> AddC(layout.HEAP_START,
                                     Lit(PageCount(layout.HEAP_SIZE))).val,
                        bits |-> ReadWrite],
     map_text |-> [start |-> layout.TEXT_START, end |-> layout.TEXT_END,
                   bits |-> ReadExecute],
     map_rodata |-> [start |-> layout.RODATA_START, end |-> layout.RODATA_END,
                     bits |-> ReadExecute],
     map_data |-> [start |-> layout.DATA_START, end |-> layout.DATA_END,
                   bits |-> ReadWrite],
     map_bss |-> [start |-> layout.BSS_START, end |-> layout.BSS_END,
                  bits |-> ReadWrite],
     map_stack |-> [start |-> layout.KERNEL_STACK_START, end |-> layout.KERNEL_STACK_END,
                    bits |-> ReadWrite],
     map_plic_low |-> [start |-> Lit(201326592), end |-> Lit(201334785),
                       bits |-> ReadWrite],
     map_plic_high |-> [start |-> Lit(203423744), end |-> Lit(203456512),
                        bits |-> ReadWrite],
     map_trap_stack |-> [start |-> SubB(KERNEL_TRAP_FRAME[0].trap_stack, PAGE_SIZE).val,
                         end |-> KERNEL_TRAP_FRAME[0].trap_stack,
                         bits |-> ReadWrite],
     map_trap_frame |-> [start |-> mscratch[0],
                         end |-> AddC(mscratch[0], Lit(TrapFrameSize)).val,
                         bits |-> ReadWrite]]

\* the page::map calls of kinit: the address mapped onto itself, read-write, level 0
MapCalls ==
    [map_uart |-> Lit(268435456),      \* 0x1000_0000
     map_msip |-> Lit(33554432),       \* 0x0200_0000
     map_mtimecmp |-> Lit(33599488),   \* 0x0200_b000
     map_mtime |-> Lit(33603584)]      \* 0x0200_c000

\* Uart::new(0x1000_0000).init(); page::init(); kmem::init(); root_ptr, kheap_head,
\* total_pages
kinit_init ==
    /\ kpc = "init"
    /\ LET a0 == page_init(layout)
           heap == zalloc(a0, KmemPages)
           table == zalloc(heap.alloc, 1)
       IN  /\ alloc' = table.alloc
           /\ kheap' = [head |-> heap.ret, pages |-> KmemPages]
           /\ kroot' = table.ret
           /\ klog' = klog \o <<[op |-> "uart_init"], [op |-> "page_init"],
                                [op |-> "zalloc", n |-> KmemPages, ret |-> heap.ret],
                                [op |-> "zalloc", n |-> 1, ret |-> table.ret]>>
    /\ kpc' = After(kpc)
    /\ UNCHANGED trap_vars
    /\ UNCHANGED <<regions_done, hpc, layout, pt, KERNEL_TABLE, satp_value, satp, fenced, mscratch,
                   sscratch, KERNEL_TRAP_FRAME>>

\* the frames a call took from the allocator, as zalloc events
TableAllocs(before, after) ==
    IF after.taken = before.taken THEN <<>>
    ELSE <<[op |-> "zalloc", n |-> Cardinality(after.taken \ before.taken),
            ret |-> Lit(0)]>>

\* one id_map_range(&mut root, start, end, bits) of kinit.  What page::map does when
\* zalloc has no frame for a missing table is not stated: kinit either stops there or
\* goes on with the page left unmapped
kinit_id_map_range ==
    /\ kpc \in DOMAIN RangeCalls
    /\ LET c == RangeCalls[kpc]
           r == id_map_range(pt, alloc, kroot, c.start, c.end, c.bits)
       IN  /\ pt' = r.pt
           /\ alloc' = r.alloc
           /\ klog' = klog \o <<[op |-> "id_map_range", at |-> kpc, start |-> c.start,
                                 end |-> c.end, bits |-> c.bits, maps |-> r.maps,
                                 ok |-> r.ok]>> \o TableAllocs(alloc, r.alloc)
           /\ kpc' \in IF r.ok THEN {After(kpc)} ELSE {After(kpc), "map_failed"}
    /\ UNCHANGED trap_vars
    /\ UNCHANGED <<regions_done, hpc, layout, kroot, kheap, KERNEL_TABLE, satp_value, satp, fenced,
                   mscratch, sscratch, KERNEL_TRAP_FRAME>>

\* one page::map(&mut root, a, a, ReadWrite, 0) of kinit
kinit_map ==
    /\ kpc \in DOMAIN MapCalls
    /\ LET a == MapCalls[kpc]
           r == map(pt, alloc, kroot, a, a, ReadWrite, 0)
       IN  /\ pt' = r.pt
           /\ alloc' = r.alloc
           /\ klog' = klog \o <<[op |-> "map", at |-> kpc, vaddr |-> a, paddr |-> a,
                                 bits |-> ReadWrite, level |-> 0, ok |-> r.ok]>>
                           \o TableAllocs(alloc, r.alloc)
           /\ kpc' \in IF r.ok THEN {After(kpc)} ELSE {After(kpc), "map_failed"}
    /\ UNCHANGED trap_vars
    /\ UNCHANGED <<regions_done, hpc, layout, kroot, kheap, KERNEL_TABLE, satp_value, satp, fenced,
                   mscratch, sscratch, KERNEL_TRAP_FRAME>>

\* KERNEL_TABLE = root_u
kinit_kernel_table ==
    /\ kpc = "kernel_table"
    /\ KERNEL_TABLE' = kroot
    /\ klog' = Append(klog, [op |-> "kernel_table"])
    /\ kpc' = After(kpc)
    /\ UNCHANGED trap_vars
    /\ UNCHANGED <<regions_done, hpc, layout, alloc, pt, kroot, kheap, satp_value, satp, fenced, mscratch,
                   sscratch, KERNEL_TRAP_FRAME>>

\* let satp_value = cpu::build_satp(cpu::SatpMode::Sv39, 0, root_u)
kinit_build_satp ==
    /\ kpc = "build_satp"
    /\ satp_value' = build_satp(Sv39, 0, kroot)
    /\ klog' = Append(klog, [op |-> "build_satp"])
    /\ kpc' = After(kpc)
    /\ UNCHANGED trap_vars
    /\ UNCHANGED <<regions_done, hpc, layout, alloc, pt, kroot, kheap, KERNEL_TABLE, satp, fenced, mscratch,
                   sscratch, KERNEL_TRAP_FRAME>>

\* cpu::mscratch_write(&mut cpu::KERNEL_TRAP_FRAME[0] as usize)
kinit_mscratch_write ==
    /\ kpc = "mscratch_write"
    /\ mscratch' = [mscratch EXCEPT ![0] = TrapFrameAddr(layout, 0)]
    /\ klog' = Append(klog, [op |-> "mscratch_write"])
    /\ kpc' = After(kpc)
    /\ UNCHANGED trap_vars
    /\ UNCHANGED <<regions_done, hpc, layout, alloc, pt, kroot, kheap, KERNEL_TABLE, satp_value, satp,
                   fenced, sscratch, KERNEL_TRAP_FRAME>>

\* cpu::sscratch_write(cpu::mscratch_read())
kinit_sscratch_write ==
    /\ kpc = "sscratch_write"
    /\ sscratch' = [sscratch EXCEPT ![0] = mscratch[0]]
    /\ klog' = Append(klog, [op |-> "sscratch_write"])
    /\ kpc' = After(kpc)
    /\ UNCHANGED trap_vars
    /\ UNCHANGED <<regions_done, hpc, layout, alloc, pt, kroot, kheap, KERNEL_TABLE, satp_value, satp,
                   fenced, mscratch, KERNEL_TRAP_FRAME>>

\* cpu::KERNEL_TRAP_FRAME[0].satp = satp_value
kinit_store_satp ==
    /\ kpc = "store_satp"
    /\ KERNEL_TRAP_FRAME' = [KERNEL_TRAP_FRAME EXCEPT ![0].satp = satp_value]
    /\ klog' = Append(klog, [op |-> "store_satp"])
    /\ kpc' = After(kpc)
    /\ UNCHANGED trap_vars
    /\ UNCHANGED <<regions_done, hpc, layout, alloc, pt, kroot, kheap, KERNEL_TABLE, satp_value, satp,
                   fenced, mscratch, sscratch>>

\* cpu::KERNEL_TRAP_FRAME[0].trap_stack = page::zalloc(1).add(page::PAGE_SIZE)
kinit_alloc_trap_stack ==
    /\ kpc = "alloc_trap_stack"
    /\ LET z == zalloc(alloc, 1)
       IN  /\ alloc' = z.alloc
           /\ KERNEL_TRAP_FRAME' =
                  [KERNEL_TRAP_FRAME EXCEPT ![0].trap_stack = AddC(z.ret, PAGE_SIZE).val]
           /\ klog' = Append(klog, [op |-> "zalloc", at |-> kpc, n |-> 1, ret |-> z.ret])
    /\ kpc' = After(kpc)
    /\ UNCHANGED trap_vars
    /\ UNCHANGED <<regions_done, hpc, layout, pt, kroot, kheap, KERNEL_TABLE, satp_value, satp, fenced,
                   mscratch, sscratch>>

\* mutant of kinit_satp_write: the address of the root table goes into satp as it is
kinit_satp_write_root ==
    /\ kpc = "satp_write"
    /\ satp' = KERNEL_TABLE
    /\ fenced' = FALSE
    /\ klog' = Append(klog, [op |-> "satp_write"])
    /\ kpc' = After(kpc)
    /\ UNCHANGED trap_vars
    /\ UNCHANGED <<regions_done, hpc, layout, alloc, pt, kroot, kheap, KERNEL_TABLE, satp_value, mscratch,
                   sscratch, KERNEL_TRAP_FRAME>>

\* cpu::satp_write(satp_value)
kinit_satp_write ==
    /\ kpc = "satp_write"
    /\ satp' = satp_value
    /\ fenced' = FALSE
    /\ klog' = Append(klog, [op |-> "satp_write"])
    /\ kpc' = After(kpc)
    /\ UNCHANGED trap_vars
    /\ UNCHANGED <<regions_done, hpc, layout, alloc, pt, kroot, kheap, KERNEL_TABLE, satp_value, mscratch,
                   sscratch, KERNEL_TRAP_FRAME>>

\* cpu::satp_fence_asid(0)
kinit_satp_fence ==
    /\ kpc = "satp_fence"
    /\ fenced' = TRUE
    /\ klog' = Append(klog, [op |-> "satp_fence_asid"])
    /\ kpc' = After(kpc)
    /\ UNCHANGED trap_vars
    /\ UNCHANGED <<regions_done, hpc, layout, alloc, pt, kroot, kheap, KERNEL_TABLE, satp_value, satp,
                   mscratch, sscratch, KERNEL_TRAP_FRAME>>

\* everything but the linker script at reset
BootReset ==
    /\ overflow_checks = FALSE
    /\ mtime = Lit(0)
    /\ TrapIdle
    /\ kpc = "init"
    /\ alloc = [start |-> Lit(0), num |-> 0, taken |-> {}]
    /\ pt = <<>>
    /\ kroot = Lit(0)
    /\ kheap = [head |-> Lit(0), pages |-> 0]
    /\ KERNEL_TABLE = Lit(0)
    /\ satp_value = Lit(0)
    /\ satp = Lit(0)
    /\ fenced = FALSE
    /\ mscratch = [h \in Harts |-> Lit(0)]
    /\ sscratch = [h \in Harts |-> Lit(0)]
    /\ KERNEL_TRAP_FRAME = [h \in Harts |-> [satp |-> Lit(0), trap_stack |-> Lit(0), hart_id |-> 0]]
    /\ klog = <<>>
    /\ hpc = [h \in Harts \ {0} |-> "mscratch_write"]
    /\ regions_done = {}

\* the boot of hart 0 from reset, under each linker script
InitBoot ==
    /\ layout \in Layouts
    /\ BootReset

kinit ==
    \/ kinit_init
    \/ kinit_id_map_range
    \/ kinit_map
    \/ kinit_kernel_table
    \/ kinit_build_satp
    \/ kinit_mscratch_write
    \/ kinit_sscratch_write
    \/ kinit_store_satp
    \/ kinit_alloc_trap_stack
    \/ kinit_satp_write
    \/ kinit_satp_fence

NextBoot == kinit

-----------------------------------------------------------------------------
(* The booted kernel: kinit, then __start_rust, then traps of every cause *)

\* kinit has returned
Booted == kpc = "done"

NextRun ==
    \/ kinit
    \/ Booted /\ start_rust
    \/ Booted /\ \E c \in RxBytes : UartReceive(c)
    \/ Booted /\ \E cause \in CauseSet, hart \in Harts :
                     m_trap(At(2, 0), Lit(0), cause, hart)
    \/ mret

SpecRun == InitBoot /\ [][NextRun]_vars

-----------------------------------------------------------------------------
(* main.rs: the region mappings of kinit, made in any order and any number of times *)

\* the mapping calls of main.rs:121-222: heap, heap descriptors, text, rodata, data,
\* bss, kernel stack, UART, the three CLINT pages and the two PLIC windows
RegionSteps == {KinitOrder[i] : i \in 2..14}

\* what kinit passes to the call at statement l
RegionStart(l) == IF l \in DOMAIN MapCalls THEN MapCalls[l] ELSE RangeCalls[l].start
RegionEnd(l) ==
    IF l \in DOMAIN MapCalls THEN AddC(MapCalls[l], Lit(1)).val ELSE RangeCalls[l].end
RegionBits(l) == IF l \in DOMAIN MapCalls THEN ReadWrite ELSE RangeCalls[l].bits

\* the call at statement l on the table p
RegionCall(p, al, root, l) ==
    IF l \in DOMAIN MapCalls
    THEN map(p, al, root, MapCalls[l], MapCalls[l], ReadWrite, 0)
    ELSE id_map_range(p, al, root, RangeCalls[l].start, RangeCalls[l].end,
                      RangeCalls[l].bits)

\* the allocator and the root table as kinit finds them after page::init and
\* kmem::init
BootAlloc(l) == zalloc(zalloc(page_init(l), KmemPages).alloc, 1)

\* linker scripts for the region mappings: page-aligned sections, sections that end
\* inside a page none other starts in, and .data starting where .rodata ends, inside
\* a page
OrderLayouts ==
    LET ls == LayoutsOf({24})
        aligned == CHOOSE l \in ls : l.TEXT_END[5] = 0 /\ l.TRAP_FRAMES[5] = 256
        ragged == CHOOSE l \in ls : l.TEXT_END[5] # 0 /\ l.TRAP_FRAMES[5] = 256
    IN  {aligned, ragged, [ragged EXCEPT !.DATA_START = ragged.RODATA_END]}

InitOrder ==
    /\ overflow_checks = FALSE
    /\ mtime = Lit(0)
    /\ TrapIdle
    /\ layout \in OrderLayouts
    /\ kpc = "off"
    /\ alloc = BootAlloc(layout).alloc
    /\ pt = <<>>
    /\ kroot = BootAlloc(layout).ret
    /\ kheap = [head |-> zalloc(page_init(layout), KmemPages).ret, pages |-> KmemPages]
    /\ KERNEL_TABLE = Lit(0)
    /\ satp_value = Lit(0)
    /\ satp = Lit(0)
    /\ fenced = FALSE
    /\ mscratch = [h \in Harts |-> Lit(0)]
    /\ sscratch = [h \in Harts |-> Lit(0)]
    /\ KERNEL_TRAP_FRAME = [h \in Harts |-> [satp |-> Lit(0), trap_stack |-> Lit(0), hart_id |-> 0]]
    /\ klog = <<>>
    /\ hpc = [h \in Harts \ {0} |-> "mscratch_write"]
    /\ regions_done = {}

\* the mapping call of statement l, made now
MapRegion(l) ==
    /\ LET r == RegionCall(pt, alloc, kroot, l)
       IN  /\ r.ok
           /\ pt' = r.pt
           /\ alloc' = r.alloc
    /\ regions_done' = regions_done \cup {l}
    /\ UNCHANGED trap_vars
    /\ UNCHANGED <<hpc, layout, kpc, kroot, kheap, KERNEL_TABLE, satp_value, satp, fenced,
                   mscratch, sscratch, KERNEL_TRAP_FRAME, klog>>

\* the calls the model reorders: the seven regions of the kernel image and, for the
\* device windows, the UART page, the CLINT page at 0x0200_b000 and the first PLIC
\* window; the pages of the remaining three device calls lie in no other region
OrderSteps == RegionSteps \ {"map_msip", "map_mtime", "map_plic_high"}

NextOrder == \E l \in OrderSteps : MapRegion(l)

\* the table kinit builds with the same calls in program order
RECURSIVE ProgramOrder(_, _, _)
ProgramOrder(p, al, i) ==
    IF i > Len(KinitOrder) THEN p
    ELSE IF KinitOrder[i] \notin OrderSteps THEN ProgramOrder(p, al, i + 1)
    ELSE LET r == RegionCall(p, al, kroot, KinitOrder[i])
         IN  IF r.ok THEN ProgramOrder(r.pt, r.alloc, i + 1) ELSE r.pt

\* the page bases the call at statement l covers
RegionPages(l) ==
    LET first == PageBase(RegionStart(l))
        n == PageCount(SubB(align_val(RegionEnd(l)), first).val)
    IN  {AddC(first, <<0, 0, i \div 512, i % 512, 0>>).val : i \in 0..(n - 1)}

\* no page lies in two regions that ask for different permission bits
PagesWith(bits) == UNION {RegionPages(l) : l \in {x \in OrderSteps : RegionBits(x) = bits}}
NoConflict ==
    \A b1, b2 \in {RegionBits(l) : l \in OrderSteps} :
        b1 # b2 => PagesWith(b1) \cap PagesWith(b2) = {}

\* the leaf entries of a table, whatever frames its intermediate tables are in
LeafCount(p) == Cardinality({slot \in DOMAIN p : is_leaf(p[slot])})

SpecOrder == InitOrder /\ [][NextOrder]_vars

-----------------------------------------------------------------------------
(* main.rs: kinit_hart, statement by statement, on every hart but hart 0 *)

\* mutant of kinit_hart_mscratch_write: every hart points at hart 0's trap frame
kinit_hart_mscratch_write_frame0(hartid) ==
    /\ hpc[hartid] = "mscratch_write"
    /\ mscratch' = [mscratch EXCEPT ![hartid] = TrapFrameAddr(layout, 0)]
    /\ hpc' = [hpc EXCEPT ![hartid] = "sscratch_write"]
    /\ UNCHANGED trap_vars
    /\ UNCHANGED <<regions_done, layout, kpc, alloc, pt, kroot, kheap, KERNEL_TABLE, satp_value, satp,
                   fenced, sscratch, KERNEL_TRAP_FRAME, klog>>

\* cpu::mscratch_write(&mut cpu::KERNEL_TRAP_FRAME[hartid] as usize)
kinit_hart_mscratch_write(hartid) ==
    /\ hpc[hartid] = "mscratch_write"
    /\ mscratch' = [mscratch EXCEPT ![hartid] = TrapFrameAddr(layout, hartid)]
    /\ hpc' = [hpc EXCEPT ![hartid] = "sscratch_write"]
    /\ UNCHANGED trap_vars
    /\ UNCHANGED <<regions_done, layout, kpc, alloc, pt, kroot, kheap, KERNEL_TABLE, satp_value, satp,
                   fenced, sscratch, KERNEL_TRAP_FRAME, klog>>

\* cpu::sscratch_write(cpu::mscratch_read())
kinit_hart_sscratch_write(hartid) ==
    /\ hpc[hartid] = "sscratch_write"
    /\ sscratch' = [sscratch EXCEPT ![hartid] = mscratch[hartid]]
    /\ hpc' = [hpc EXCEPT ![hartid] = "hart_id"]
    /\ UNCHANGED trap_vars
    /\ UNCHANGED <<regions_done, layout, kpc, alloc, pt, kroot, kheap, KERNEL_TABLE, satp_value, satp,
                   fenced, mscratch, KERNEL_TRAP_FRAME, klog>>

\* mutant of kinit_hart_hart_id: the hart id goes into hart 0's trap frame
kinit_hart_hart_id_shared(hartid) ==
    /\ hpc[hartid] = "hart_id"
    /\ KERNEL_TRAP_FRAME' = [KERNEL_TRAP_FRAME EXCEPT ![0].hart_id = hartid]
    /\ hpc' = [hpc EXCEPT ![hartid] = "done"]
    /\ UNCHANGED trap_vars
    /\ UNCHANGED <<regions_done, layout, kpc, alloc, pt, kroot, kheap, KERNEL_TABLE, satp_value, satp,
                   fenced, mscratch, sscratch, klog>>

\* cpu::KERNEL_TRAP_FRAME[hartid].hart_id = hartid
kinit_hart_hart_id(hartid) ==
    /\ hpc[hartid] = "hart_id"
    /\ KERNEL_TRAP_FRAME' = [KERNEL_TRAP_FRAME EXCEPT ![hartid].hart_id = hartid]
    /\ hpc' = [hpc EXCEPT ![hartid] = "done"]
    /\ UNCHANGED trap_vars
    /\ UNCHANGED <<regions_done, layout, kpc, alloc, pt, kroot, kheap, KERNEL_TABLE, satp_value, satp,
                   fenced, mscratch, sscratch, klog>>

kinit_hart(hartid) ==
    \/ kinit_hart_mscratch_write(hartid)
    \/ kinit_hart_sscratch_write(hartid)
    \/ kinit_hart_hart_id(hartid)

\* hart 0 runs kinit while every other hart runs kinit_hart, in any interleaving
NextHarts ==
    \/ kinit
    \/ \E hartid \in Harts \ {0} : kinit_hart(hartid)

SpecHarts == InitBoot /\ [][NextHarts]_vars

SpecBoot == InitBoot /\ [][NextBoot]_vars

\* the boot of hart 0 with a heap that runs out at the allocation of the trap stack
InitBootLow ==
    /\ layout \in LowHeapLayouts
    /\ BootReset

SpecBootLow == InitBootLow /\ [][NextBoot]_vars

-----------------------------------------------------------------------------
(* Claims about the trap dispatcher *)

\* the last trap was entered with a cause of the given kind and number
TrapIs(async, nums) ==
    /\ trap # None
    /\ is_async(trap[1].cause) = async
    /\ cause_num(trap[1].cause) \in nums

\* r = p + 4 as integers: r is above p and four away from it
IsPlus4(p, r) == Less(p, r) /\ SubB(r, p).val = Lit(4)

\* the synchronous causes m_trap resumes from, and the asynchronous ones
SyncHandled == {8, 9, 11, 12, 13, 15}
AsyncHandled == {3, 7, 11}

\* the largest pc whose successor instruction address fits in 64 bits: 2^64 - 5
LastAdvancing == <<TopRadix - 1, 511, 511, 511, 4091>>

\* C1 as stated: for every input pc P, m_trap entered with a synchronous cause
\* 8, 9, 11, 12, 13 or 15 returns the resume pc P + 4.
C1_AsStated ==
    TrapIs(FALSE, SyncHandled) =>
        trap_ret # None /\ IsPlus4(trap[1].epc, trap_ret[1])

\* C1 amended: for every input pc P <= 2^64 - 5, m_trap entered with a synchronous
\* cause 8, 9, 11, 12, 13 or 15 returns P + 4; for the larger P the sum does not fit
\* in 64 bits and m_trap either panics (overflow checks) or returns P + 4 - 2^64.
C1_ResumeAfterCall ==
    TrapIs(FALSE, SyncHandled) =>
        IF Leq(trap[1].epc, LastAdvancing)
        THEN trap_ret # None /\ IsPlus4(trap[1].epc, trap_ret[1])
        ELSE IF overflow_checks
        THEN trap_ret = None /\ pc = "abort"
        ELSE /\ trap_ret # None
             /\ Less(trap_ret[1], Lit(4))
             /\ SubB(trap_ret[1], trap[1].epc).val = Lit(4)

\* C1 witness: a load page fault at the last word of a page resumes in the next page
C1_Witness ==
    /\ TrapIs(FALSE, {13})
    /\ trap[1].epc = <<0, 2, 0, 0, 4092>>
    /\ trap_ret = Some(<<0, 2, 0, 1, 0>>)

\* C2: for every input pc P, m_trap entered with an asynchronous cause 3, 7 or 11
\* returns P unchanged, whatever the controller hands out and whether or not the
\* UART has a byte ready.
C2_InterruptResumesInPlace ==
    TrapIs(TRUE, AsyncHandled) => trap_ret = Some(trap[1].epc)

\* C2 witness: an external trap that claimed the UART's source, found no byte ready,
\* and returned the last word of the address space unchanged
C2_Witness ==
    /\ TrapIs(TRUE, {11})
    /\ Len(calls) = 3
    /\ calls[1].ret = Some(UartSource)
    /\ calls[2].ret = None
    /\ trap[1].epc = <<TopRadix - 1, 511, 511, 511, 4092>>
    /\ trap_ret = Some(trap[1].epc)

\* C3 as stated, for traps taken when the timer is due: each timer trap writes a
\* timer-compare value that exceeds the one written by the previous timer trap by
\* exactly the tick interval, and returns the input pc unchanged.
C3_AsStated ==
    /\ (Len(timer_log) = 2 /\ timer_log[1].due /\ timer_log[2].due) =>
           /\ Less(timer_log[1].written, timer_log[2].written)
           /\ SubB(timer_log[2].written, timer_log[1].written).val = Lit(TickInterval)
    /\ TrapIs(TRUE, {7}) => trap_ret = Some(trap[1].epc)

\* C3 amended: each timer trap writes the time counter it reads plus the tick
\* interval and returns the input pc unchanged; so the value written exceeds the
\* previous one by exactly what the counter advanced between the two traps, which
\* is at least the tick interval when the second trap was due.
C3_TimerRearm ==
    /\ \A i \in 1..Len(timer_log) :
           /\ Less(timer_log[i].read, timer_log[i].written)
           /\ SubB(timer_log[i].written, timer_log[i].read).val = Lit(TickInterval)
    /\ Len(timer_log) = 2 =>
           /\ Leq(timer_log[1].read, timer_log[2].read)
           /\ SubB(timer_log[2].written, timer_log[1].written).val
                  = SubB(timer_log[2].read, timer_log[1].read).val
           /\ timer_log[2].due =>
                  Leq(AddC(timer_log[1].written, Lit(TickInterval)).val,
                      timer_log[2].written)
    /\ TrapIs(TRUE, {7}) =>
           /\ trap_ret = Some(trap[1].epc)
           /\ mtimecmp = timer_log[Len(timer_log)].written

\* C3 witness: two timer traps, both due, whose deadlines are one tick more than
\* the tick interval apart
C3_Witness ==
    /\ Len(timer_log) = 2
    /\ timer_log[1].due /\ timer_log[2].due
    /\ SubB(timer_log[2].written, timer_log[1].written).val = Lit(TickInterval + 1)
    /\ TrapIs(TRUE, {7})

\* the last trap had a cause m_trap does not handle
TrapUnhandled ==
    /\ trap # None
    /\ IF is_async(trap[1].cause)
       THEN cause_num(trap[1].cause) \notin AsyncHandled
       ELSE cause_num(trap[1].cause) = 2 \/ cause_num(trap[1].cause) \notin SyncHandled

\* C4: m_trap entered with a cause it does not handle never returns a resume pc:
\* the panic handler runs, the core enters the abort loop and stays there forever.
C4_UnhandledHalts ==
    /\ [](TrapUnhandled =>
              /\ trap_ret = None
              /\ pc = "abort"
              /\ console # <<>> /\ console[1].text = "Aborting: ")
    /\ [][pc = "abort" => (pc' = "abort" /\ trap_ret' = None)]_vars

\* C4 witness: an illegal instruction has halted the core
C4_Witness ==
    /\ TrapIs(FALSE, {2})
    /\ pc = "abort"
    /\ trap_ret = None

\* C5: in every external-interrupt trap, a source claimed by plic::next() is
\* completed exactly once, as the last call, for the UART's source (byte ready or
\* not) and for any other source; no complete is issued when next() returns none;
\* and no source is left claimed when the dispatcher is not running.
C5_ClaimThenComplete ==
    /\ plic.claimed = {}
    /\ calls # <<>> =>
           LET completes == {i \in 1..Len(calls) : calls[i].op = "complete"}
           IN  /\ calls[1].op = "next"
               /\ IF calls[1].ret = None
                  THEN completes = {}
                  ELSE /\ completes = {Len(calls)}
                       /\ calls[Len(calls)].id = calls[1].ret[1]

\* C5 witness: a source other than the UART's was claimed and completed
C5_Witness ==
    /\ Len(calls) = 2
    /\ calls[1].ret # None /\ calls[1].ret[1] # UartSource
    /\ calls[2] = [op |-> "complete", id |-> calls[1].ret[1]]

\* the echo the claim describes for the received byte c
EchoClaimed(c) ==
    IF c \in {8, 127} THEN <<8, 32, 8>>
    ELSE IF c \in {10, 13} THEN <<13, 10>>
    ELSE <<c>>

\* C7: in an external trap for the UART's source with a received byte c, the bytes
\* written to the transmit register are 8, 32, 8 for c = 8 or 127, 13, 10 for
\* c = 10 or 13, and the single byte c for every other c in 0..255.
C7_EchoBytes ==
    (Len(calls) = 3 /\ calls[2].op = "get" /\ calls[2].ret # None) =>
        uart_tx = EchoClaimed(calls[2].ret[1])

-----------------------------------------------------------------------------
(* Claims about the interrupt controller *)

\* C6: after the configuration done in __start_rust, a pending source 10 is
\* returned by plic::next(); a next() while 10 is claimed and not yet completed does
\* not return 10; and between two next() calls that return 10 there is a
\* complete(10).
C6_ClaimLatch ==
    /\ (started /\ UartSource \in plic.pending) =>
           plic_next(plic).ret = Some(UartSource)
    /\ UartSource \in plic.claimed => plic_next(plic).ret # Some(UartSource)
    /\ \A i, j \in 1..Len(calls) :
           (/\ i < j
            /\ calls[i] = [op |-> "next", ret |-> Some(UartSource)]
            /\ calls[j] = [op |-> "next", ret |-> Some(UartSource)]) =>
               \E k \in (i + 1)..(j - 1) :
                   calls[k] = [op |-> "complete", id |-> UartSource]

\* C6 witness: 10 is claimed, a second next() returns none, and after complete(10)
\* a new request of source 10 is claimed again
C6_Witness ==
    /\ started
    /\ calls = <<[op |-> "next", ret |-> Some(UartSource)],
                 [op |-> "next", ret |-> None],
                 [op |-> "complete", id |-> UartSource],
                 [op |-> "next", ret |-> Some(UartSource)]>>

-----------------------------------------------------------------------------
(* Claims about the page table *)

\* addresses looked up after a call: four offsets in each of the pages at and after
\* the page of every range start
Probes ==
    {<<b[1], b[2], b[3], b[4], o>> :
        b \in {AddC(PageBase(s), <<0, 0, 0, k, 0>>).val :
                   s \in MapStarts, k \in 0..(MaxMapPages + 2)},
        o \in {0, 1, 2048, 4095}}

C14_OneMapPerPage ==
    klog # <<>> =>
        LET c == klog[Len(klog)]
            n == Len(c.maps)
        IN  /\ \A i \in 1..n :
                   /\ c.maps[i].paddr = c.maps[i].vaddr
                   /\ c.maps[i].vaddr[5] = 0
                   /\ c.maps[i].bits = c.bits
                   /\ c.maps[i].level = 0
            /\ \A i \in 1..(n - 1) :
                   c.maps[i + 1].vaddr = AddC(c.maps[i].vaddr, Lit(4096)).val
            /\ n > 0 =>
                   /\ Leq(c.maps[1].vaddr, c.start)
                   /\ Less(c.start, AddC(c.maps[1].vaddr, Lit(4096)).val)
                   /\ Less(c.maps[n].vaddr, c.end)
                   /\ Leq(c.end, AddC(c.maps[n].vaddr, Lit(4096)).val)
            /\ n = 0 <=> (c.start = c.end /\ c.start[5] = 0)

\* C14 witness: the 8191 bytes from the last page under a level-1 boundary take two
\* map calls, the second for the first page of the next level-0 table
C14_Witness ==
    /\ Len(klog) = 1
    /\ klog[1].start = <<0, 2, 0, 511, 0>>
    /\ klog[1].end = <<0, 2, 1, 0, 4095>>
    /\ klog[1].maps = <<[vaddr |-> <<0, 2, 0, 511, 0>>, paddr |-> <<0, 2, 0, 511, 0>>,
                         bits |-> klog[1].bits, level |-> 0],
                        [vaddr |-> <<0, 2, 1, 0, 0>>, paddr |-> <<0, 2, 1, 0, 0>>,
                         bits |-> klog[1].bits, level |-> 0]>>

\* every page of every region mapped so far holds the leaf that kinit's program
\* order leaves there, and once all regions are mapped there is no other leaf
SameLeaves ==
    LET ref == ProgramOrder(<<>>, BootAlloc(layout).alloc, 1)
    IN  /\ \A l \in regions_done : \A v \in RegionPages(l) :
               walk(pt, kroot, 2, v) = walk(ref, kroot, 2, v)
        /\ regions_done = OrderSteps => LeafCount(pt) = LeafCount(ref)

\* C15 as stated: for any region boundaries, the region mappings of kinit made in any
\* order, and repeated any number of times, give every page the leaf entry (address
\* and permission bits) that the program order gives it.
C15_AsStated ==
    regions_done = OrderSteps => SameLeaves

\* C15: when no page lies in two regions mapped with different permission bits, the
\* region mappings of kinit made in any order, and repeated any number of times,
\* give every page the leaf entry that the program order gives it.
C15_OrderIndependent ==
    NoConflict => SameLeaves

\* C15 witness: with .text ending inside a page, all the regions are mapped, .bss
\* before .text, and the page shared by .text and .rodata holds its read-execute leaf
C15_Witness ==
    /\ NoConflict
    /\ regions_done = OrderSteps
    /\ layout.TEXT_END[5] # 0
    /\ walk(pt, kroot, 2, PageBase(layout.TEXT_END)) =
           Some([entry |-> [addr |-> PageBase(layout.TEXT_END),
                            bits |-> ReadExecute \cup Valid],
                 level |-> 0])
    /\ Less(Entry(pt, <<kroot, 2>>).addr, Entry(pt, <<kroot, 0>>).addr)

-----------------------------------------------------------------------------
(* Claims about kinit *)

\* the device registers the core reads and writes once translation is on: the UART
\* registers (uart.rs), the ends of the two PLIC windows (main.rs) and the two CLINT
\* registers of the timer arm of m_trap (trap.rs)
UartRegisters == {AddC(Lit(268435456), Lit(o)).val : o \in {0, 1, 2, 3, 5}}
PlicRegisters == {Lit(201326592), Lit(201326592 + 4096), Lit(201334784),
                  Lit(203423744), Lit(203423748), Lit(203456511)}
MTIMECMP == Lit(33570816)     \* 0x0200_4000
MTIME == Lit(33603576)        \* 0x0200_bff8
DeviceRegisters == UartRegisters \cup PlicRegisters \cup {MTIMECMP, MTIME}

\* satp_write has run
TranslationOn == kpc \in {"satp_fence", "done"}

\* the position of the first event of klog with the operation op; 0 when none
Position(op) ==
    IF \E i \in 1..Len(klog) : klog[i].op = op
    THEN CHOOSE i \in 1..Len(klog) :
             /\ klog[i].op = op
             /\ \A j \in 1..(i - 1) : klog[j].op # op
    ELSE 0

\* C9: when kinit writes satp, every device register the core accesses afterwards
\* (UART at 0x1000_0000, the PLIC windows, mtimecmp at 0x0200_4000 and mtime at
\* 0x0200_bff8) is identity-mapped in the root table.
C9_DevicesMapped ==
    (kpc = "satp_write" \/ TranslationOn) =>
        \A a \in DeviceRegisters : virt_to_phys(pt, kroot, a) = Some(a)

\* the events that have to precede satp_write
MappingSteps == DOMAIN RangeCalls \cup DOMAIN MapCalls

\* C10: in kinit every identity-mapping call, the store of the satp value into the
\* trap frame and the writes of mscratch and sscratch happen before satp_write;
\* satp_write is immediately followed by the fence; no map and no frame allocation
\* happens after satp_write.
C10_TranslationLast ==
    /\ [](Position("satp_write") # 0 =>
            LET w == Position("satp_write")
            IN  /\ \A l \in MappingSteps :
                       \E i \in 1..(w - 1) :
                           /\ klog[i].op \in {"id_map_range", "map"}
                           /\ klog[i].at = l
                           /\ klog[i].ok
                /\ \A op \in {"store_satp", "mscratch_write", "sscratch_write"} :
                       Position(op) \in 1..(w - 1)
                /\ KERNEL_TRAP_FRAME[0].satp = satp
                /\ Len(klog) > w => klog[w + 1].op = "satp_fence_asid"
                /\ kpc = "done" => fenced
                /\ \A i \in (w + 1)..Len(klog) :
                       klog[i].op \notin {"map", "id_map_range", "zalloc"})
    /\ [][TranslationOn => (pt' = pt /\ alloc' = alloc)]_vars
    /\ [][kpc = "satp_fence" => (fenced' /\ satp' = satp)]_vars

\* C10 witness: kinit has returned with translation on and fenced, the page table
\* holding all the mappings
C10_Witness ==
    /\ kpc = "done"
    /\ satp = build_satp(Sv39, 0, kroot)
    /\ fenced
    /\ Position("satp_write") = Len(klog) - 1
    /\ virt_to_phys(pt, kroot, layout.TEXT_START) = Some(layout.TEXT_START)
    /\ virt_to_phys(pt, kroot, mscratch[0]) = Some(mscratch[0])

-----------------------------------------------------------------------------
(* Claims about the per-hart boot state *)

\* boot initialization has finished on hart h
BootDone(h) == IF h = 0 THEN kpc = "done" ELSE hpc[h] = "done"

\* C11: after kinit on hart 0, and after kinit_hart(h) on any other hart h, mscratch
\* and sscratch of that hart both hold the address of KERNEL_TRAP_FRAME[h], and so
\* are equal.
C11_ScratchIsOwnFrame ==
    \A h \in Harts :
        BootDone(h) =>
            /\ mscratch[h] = AddC(layout.TRAP_FRAMES, Lit(h * TrapFrameSize)).val
            /\ sscratch[h] = AddC(layout.TRAP_FRAMES, Lit(h * TrapFrameSize)).val
            /\ mscratch[h] = sscratch[h]
            /\ \A g \in Harts \ {h} : BootDone(g) => mscratch[g] # mscratch[h]

\* C11 witness: hart 0 and hart 1 have finished, hart 2 has not written sscratch yet,
\* and hart 1's scratch registers point one trap frame past hart 0's
C11_Witness ==
    /\ kpc = "done"
    /\ hpc[1] = "done"
    /\ hpc[2] = "sscratch_write"
    /\ mscratch[0] = layout.TRAP_FRAMES
    /\ sscratch[1] = AddC(layout.TRAP_FRAMES, Lit(TrapFrameSize)).val
    /\ sscratch[2] = Lit(0)

\* page::zalloc(1) returned null for the trap stack
TrapStackAllocFailed ==
    \E i \in 1..Len(klog) :
        /\ klog[i].op = "zalloc"
        /\ "at" \in DOMAIN klog[i]
        /\ klog[i].at = "alloc_trap_stack"
        /\ klog[i].ret = Lit(0)

\* C12: when the frame allocation for the trap stack returns null, kinit does not
\* install in KERNEL_TRAP_FRAME[0], nor identity-map, a trap stack computed from the
\* null address, and does not go on to enable translation.
C12_NullChecked ==
    TrapStackAllocFailed =>
        /\ KERNEL_TRAP_FRAME[0].trap_stack # AddC(Lit(0), PAGE_SIZE).val
        /\ \A i \in 1..Len(klog) :
               (klog[i].op = "id_map_range" /\ klog[i].at = "map_trap_stack") =>
                   klog[i].start # Lit(0)
        /\ satp = Lit(0)

-----------------------------------------------------------------------------
(* Claims about interrupts as the hardware raises them *)

\* m_trap has returned from the trap with cause c
Returned(c) == pc = "m_trap_ret" /\ trap # None /\ trap[1].cause = c

\* C13: every timer trap leaves mtimecmp strictly greater than mtime, so the timer
\* interrupt is de-asserted on return; and whenever the counter has reached
\* mtimecmp, a timer trap eventually puts mtimecmp ahead of it again, after any
\* number of timer traps.
C13_TimerRearmsItself ==
    /\ [](Returned(TimerCause) => Less(mtime, mtimecmp))
    /\ (Leq(mtimecmp, mtime) ~> Less(mtime, mtimecmp))

\* C13 witness: the second of two timer traps in a row, each taken when the counter
\* had reached the compare value, the second one tick late
C13_Witness ==
    /\ Returned(TimerCause)
    /\ Len(timer_log) = 2
    /\ timer_log[1].due /\ timer_log[2].due
    /\ timer_log[2].read = AddC(timer_log[1].written, Lit(1)).val
    /\ Less(mtime, mtimecmp)

\* C16: when boot initialization has finished on hart h, KERNEL_TRAP_FRAME[h] holds
\* hart id h, the satp value of the kernel root table and a non-null trap stack.
C16_FramePopulated ==
    \A h \in Harts :
        (BootDone(0) /\ BootDone(h)) =>
            /\ KERNEL_TRAP_FRAME[h].hart_id = h
            /\ KERNEL_TRAP_FRAME[h].satp = build_satp(Sv39, 0, KERNEL_TABLE)
            /\ KERNEL_TRAP_FRAME[h].trap_stack # Lit(0)

\* the step is one of hart h
StepOf(h) == IF h = 0 THEN kpc' # kpc ELSE hpc'[h] # hpc[h]

\* what boot leaves in the trap frames, from the linker script alone: hart 0 gets the
\* satp value of the root table and the end of the frame after the kernel heap, the
\* root and the seven page tables; the others get their hart id
FinalFrames ==
    [h \in Harts |->
        IF h = 0
        THEN [satp |-> build_satp(Sv39, 0, BootAlloc(layout).ret),
              trap_stack |-> AddC(FrameAddr(page_init(layout), KmemPages + 8),
                                  PAGE_SIZE).val,
              hart_id |-> 0]
        ELSE [satp |-> Lit(0), trap_stack |-> Lit(0), hart_id |-> h]]

\* C17: under every interleaving of kinit on hart 0 with kinit_hart(h) on the other
\* harts, a hart writes only its own KERNEL_TRAP_FRAME[h] and its own scratch
\* registers, and the final contents of every trap frame are the same.
C17_OwnFrameOnly ==
    /\ [][\A h \in Harts :
              (\/ KERNEL_TRAP_FRAME'[h] # KERNEL_TRAP_FRAME[h]
               \/ mscratch'[h] # mscratch[h]
               \/ sscratch'[h] # sscratch[h]) => StepOf(h)]_vars
    /\ []((\A h \in Harts : BootDone(h)) => KERNEL_TRAP_FRAME = FinalFrames)

\* C17 witness: kinit is about to store satp while hart 1 has finished and hart 2 is
\* between its two scratch writes
C17_Witness ==
    /\ kpc = "store_satp"
    /\ hpc[1] = "done"
    /\ hpc[2] = "sscratch_write"
    /\ KERNEL_TRAP_FRAME[1].hart_id = 1
    /\ KERNEL_TRAP_FRAME[0].satp = Lit(0)
    /\ mscratch[2] # Lit(0) /\ sscratch[2] = Lit(0) /\ sscratch[0] = mscratch[0]

\* C18: the value kinit writes into satp is the value it stored in
\* KERNEL_TRAP_FRAME[0].satp, and it is (8 << 60) | (0 << 44) | (root >> 12), where
\* root is the table that received the identity mappings and is stored in
\* KERNEL_TABLE.
C18_SatpValue ==
    TranslationOn =>
        /\ satp = KERNEL_TRAP_FRAME[0].satp
        /\ satp[1] \div 2097152 = 8                   \* bits 60..63: the mode
        /\ (satp[1] \div 32) % 65536 = 0              \* bits 44..59: the asid
        /\ kroot = <<(satp[3] \div 64) + 8 * satp[2] + 4096 * (satp[1] % 32),
                     (satp[4] \div 64) + 8 * (satp[3] % 64),
                     (satp[5] \div 512) + 8 * (satp[4] % 64),
                     satp[5] % 512,
                     0>>                              \* bits 0..43, shifted left by 12
        /\ KERNEL_TABLE = kroot
        /\ \A l \in RegionSteps :
               virt_to_phys(pt, kroot, RegionStart(l)) = Some(RegionStart(l))

\* C18 witness: with the root table at 0x8000_d000, satp holds 0x8000_0000_0008_000d
C18_Witness ==
    /\ kpc = "done"
    /\ KERNEL_TABLE = At(2, 53248)
    /\ satp = <<16777216, 0, 0, 128, 13>>
    /\ KERNEL_TRAP_FRAME[0].satp = satp

\* C19: when m_trap returns from a handled asynchronous cause (software 3, timer 7,
\* external 11), the condition that raised that interrupt no longer holds, so the
\* same interrupt is not taken again right after the return without a new device
\* event.
C19_InterruptCleared ==
    \A cause \in {SoftwareCause, TimerCause, ExternalCause} :
        Returned(cause) => ~Raised(cause)

-----------------------------------------------------------------------------
(* Claims about what m_trap leaves alone *)

\* the step is a run of m_trap
TrapStep == pc = "running" /\ pc' \in {"m_trap_ret", "abort"}

\* C20: for every cause, m_trap leaves the trap frames, the scratch registers, satp
\* and the page tables as they are; it changes mtimecmp only on a timer interrupt,
\* the controller's pending/claimed state and the UART receive buffer only on an
\* external interrupt, and otherwise only writes text to the UART.
C20_FrameEffect ==
    [][TrapStep =>
          /\ KERNEL_TRAP_FRAME' = KERNEL_TRAP_FRAME
          /\ mscratch' = mscratch /\ sscratch' = sscratch
          /\ satp' = satp /\ pt' = pt
          /\ boot_vars' = boot_vars
          /\ msip' = msip /\ mtime' = mtime /\ started' = started
          /\ mtimecmp' # mtimecmp => TrapIs(TRUE, {7})'
          /\ (plic' # plic \/ uart_rx' # uart_rx) => TrapIs(TRUE, {11})'
          /\ plic'.threshold = plic.threshold
          /\ plic'.enabled = plic.enabled
          /\ plic'.priority = plic.priority
          /\ uart_rx' = uart_rx \/ (uart_rx # <<>> /\ uart_rx' = Tail(uart_rx))]_vars

\* C20 witness: after the boot, an external-interrupt trap has taken the byte 'A' out
\* of the UART and echoed it, while the trap frame of hart 0, satp and a text page
\* are as kinit left them
C20_Witness ==
    /\ Booted
    /\ Returned(ExternalCause)
    /\ uart_rx = <<>>
    /\ uart_tx = <<65>>
    /\ plic.pending = {} /\ plic.claimed = {}
    /\ satp = KERNEL_TRAP_FRAME[0].satp /\ satp # Lit(0)
    /\ mscratch[0] = layout.TRAP_FRAMES
    /\ virt_to_phys(pt, kroot, layout.TEXT_START) = Some(layout.TEXT_START)

=============================================================================
